---- MODULE Spec2Model ----
(***************************************************************************)
(* Model of src/main.py: the /analyze endpoint of the sepsis assistant.    *)
(*                                                                         *)
(* Text is modelled as a sequence of tokens.  A token is either one of the *)
(* three section headers (an atomic token: the regular expressions match   *)
(* the header literally, so its inner characters never matter), a header   *)
(* written in another letter case (re.IGNORECASE), one whitespace          *)
(* character, one parenthesis, one ordinary character, or one of the fixed *)
(* sentences the parser itself emits (a reply may contain them too).       *)
(* Accented letters of the source strings are written without accent.      *)
(***************************************************************************)
EXTENDS Integers, Sequences, FiniteSets, TLC

VARIABLES
    pc,               \* where the request (or the function under check) stands
    body,             \* the JSON body of the POST /analyze request
    data,             \* the validated PatientData handed to the endpoint
    prompt_final,     \* the rendered prompt
    llm_calls,        \* calls of model.generate_content made for the request
    gemini,           \* how the call ended: "none", "text", or the exception
    reply,            \* response.text
    parsed_response,  \* the dict parse_gemini_response returned
    status,           \* HTTP status of the response (0: none sent yet)
    detail,           \* the detail of an error response
    responses         \* responses sent for the request

vars == <<pc, body, data, prompt_final, llm_calls, gemini, reply,
          parsed_response, status, detail, responses>>

(***************************************************************************)
(* Tokens                                                                  *)
(***************************************************************************)
HDR_ANALISIS == "**1. Analisis Breve:**"

HDR_JUSTIFICACION == "**2. Justificacion:**"

HDR_ACCIONES == "**3. Acciones Sugeridas:**"

\* header 1 in capitals: the same header under re.IGNORECASE
HDR_ANALISIS_UPPER == "**1. ANALISIS BREVE:**"

WS == " "

LPAREN == "("

RPAREN == ")"

TXT == "x"

PH_ANALISIS == "No se pudo parsear el analisis."

PH_JUSTIFICACION == "No se pudo parsear la justificacion."

PH_ACCIONES == "No se pudieron parsear las acciones."

ERR_PARSEO == "Error de parseo."

Headers == {HDR_ANALISIS, HDR_JUSTIFICACION, HDR_ACCIONES}

\* what str.strip() removes
Whitespace == {WS}

\* what str.strip("()") removes
Parens == {LPAREN, RPAREN}

(***************************************************************************)
(* Helpers on finite sets of positions                                     *)
(***************************************************************************)
Min(S) == CHOOSE m \in S : \A k \in S : m <= k

Max(S) == CHOOSE m \in S : \A k \in S : m >= k

(***************************************************************************)
(* re.IGNORECASE: both spellings of a header fold to the same token        *)
(***************************************************************************)
Fold(tok) ==
    IF tok = HDR_ANALISIS_UPPER THEN HDR_ANALISIS ELSE tok

(***************************************************************************)
(* str.strip(chars): drop the leading and the trailing run of chars        *)
(***************************************************************************)
Strip(s, chars) ==
    LET keep == {i \in 1..Len(s) : s[i] \notin chars}
    IN  IF keep = {} THEN <<>> ELSE SubSeq(s, Min(keep), Max(keep))

\* group(1).strip().strip("()").strip()
Clean(s) == Strip(Strip(Strip(s, Whitespace), Parens), Whitespace)

(***************************************************************************)
(* re.search: None, or the match with its group(1)                         *)
(***************************************************************************)
NoMatch == [found |-> FALSE, group1 |-> <<>>]

\* HDR(.*?)(?=NEXT|\Z) with re.DOTALL: the leftmost HDR; the lazy group ends
\* at the first NEXT after it, or at the end of the text
SearchUntil(text, hdr, next) ==
    LET starts == {i \in 1..Len(text) : Fold(text[i]) = hdr}
    IN  IF starts = {} THEN NoMatch
        ELSE LET i     == Min(starts)
                 stops == {j \in (i+1)..Len(text) : Fold(text[j]) = next}
                 e     == IF stops = {} THEN Len(text) + 1 ELSE Min(stops)
             IN  [found |-> TRUE, group1 |-> SubSeq(text, i + 1, e - 1)]

\* HDR(.*) with re.DOTALL: the leftmost HDR; the greedy group runs to the end
SearchToEnd(text, hdr) ==
    LET starts == {i \in 1..Len(text) : Fold(text[i]) = hdr}
    IN  IF starts = {} THEN NoMatch
        ELSE [found |-> TRUE,
              group1 |-> SubSeq(text, Min(starts) + 1, Len(text))]

(***************************************************************************)
(* parse_gemini_response.  A Python call either returns or raises: an      *)
(* outcome is [raised, value].                                             *)
(***************************************************************************)
Returned(v) == [raised |-> FALSE, value |-> v]

Raised(v) == [raised |-> TRUE, value |-> v]

\* m.group(1)... with no "if m": AttributeError on None
SectionUnguarded(m, placeholder) ==
    IF m.found THEN Returned(Clean(m.group1)) ELSE Raised(<<>>)

\* m.group(1).strip().strip("()").strip() if m else "<placeholder>"
Section(m, placeholder) ==
    IF m.found THEN Returned(Clean(m.group1)) ELSE Returned(<<placeholder>>)

\* the body of the try block: three searches, three cleanings, the dict
ParseTry(text) ==
    LET analisis      == SearchUntil(text, HDR_ANALISIS, HDR_JUSTIFICACION)
        justificacion == SearchUntil(text, HDR_JUSTIFICACION, HDR_ACCIONES)
        acciones      == SearchToEnd(text, HDR_ACCIONES)
        clean_analisis      == Section(analisis, PH_ANALISIS)
        clean_justificacion == Section(justificacion, PH_JUSTIFICACION)
        clean_acciones      == Section(acciones, PH_ACCIONES)
        dict == [analisis_breve     |-> clean_analisis.value,
                 justificacion      |-> clean_justificacion.value,
                 acciones_sugeridas |-> clean_acciones.value]
    IN  IF \/ clean_analisis.raised
           \/ clean_justificacion.raised
           \/ clean_acciones.raised
        THEN Raised(dict)
        ELSE Returned(dict)

\* the except branch: the raw text in the first field
ParseExcept(text) ==
    Returned([analisis_breve     |-> text,
              justificacion      |-> <<ERR_PARSEO>>,
              acciones_sugeridas |-> <<ERR_PARSEO>>])

\* a parser that lets a missing header raise (no "if m", no try/except)
parse_gemini_response_raising(text) ==
    LET found(h) == \E i \in 1..Len(text) : Fold(text[i]) = h
    IN  IF \A h \in Headers : found(h)
        THEN ParseTry(text)
        ELSE Raised(ParseTry(text).value)

parse_gemini_response(text) ==
    LET r == ParseTry(text)
    IN  IF r.raised THEN ParseExcept(text) ELSE r

(***************************************************************************)
(* Values of the variables while the endpoint is not using them            *)
(***************************************************************************)
NoText == <<>>

NoResult == [analisis_breve |-> <<>>, justificacion |-> <<>>,
             acciones_sugeridas |-> <<>>]

NoBody == [none |-> TRUE]

NoData == [none |-> TRUE]

(***************************************************************************)
(* SpecParse: parse_gemini_response applied to every reply text of at most *)
(* MaxLen tokens                                                           *)
(***************************************************************************)
MaxLen == 4

Alphabet == {HDR_ANALISIS, HDR_JUSTIFICACION, HDR_ACCIONES, HDR_ANALISIS_UPPER,
             WS, LPAREN, RPAREN, TXT, PH_ANALISIS}

TextsUpTo(n, alphabet) == UNION {[1..k -> alphabet] : k \in 0..n}

Idle ==
    /\ body = NoBody
    /\ data = NoData
    /\ prompt_final = NoText
    /\ llm_calls = 0
    /\ gemini = "none"
    /\ status = 0
    /\ detail = NoText
    /\ responses = 0

ParseInit ==
    /\ pc = "parse_call"
    /\ reply \in TextsUpTo(MaxLen, Alphabet)
    /\ parsed_response = NoResult
    /\ Idle

ParseCall ==
    /\ pc = "parse_call"
    /\ LET r == parse_gemini_response(reply)
       IN  /\ pc' = IF r.raised THEN "parse_raised" ELSE "parse_returned"
           /\ parsed_response' = r.value
    /\ UNCHANGED <<body, data, prompt_final, llm_calls, gemini, reply, status,
                   detail, responses>>

ParseNext == ParseCall

SpecParse == ParseInit /\ [][ParseNext]_vars

(***************************************************************************)
(* SpecFormat: parse_gemini_response applied to every reply in the format  *)
(* the prompt asks for: the three headers once each, in order, each        *)
(* followed by its section; the sections hold at most MaxBody tokens       *)
(* altogether                                                              *)
(***************************************************************************)
MaxBody == 4

BodyAlphabet == {WS, LPAREN, RPAREN, TXT, PH_ANALISIS}

FormatReplies ==
    {<<HDR_ANALISIS>> \o SubSeq(t, 1, i)
        \o <<HDR_JUSTIFICACION>> \o SubSeq(t, i + 1, j)
        \o <<HDR_ACCIONES>> \o SubSeq(t, j + 1, Len(t)) :
     <<t, i, j>> \in {x \in TextsUpTo(MaxBody, BodyAlphabet)
                              \X (0..MaxBody) \X (0..MaxBody) :
                      x[2] <= x[3] /\ x[3] <= Len(x[1])}}

FormatInit ==
    /\ pc = "parse_call"
    /\ reply \in FormatReplies
    /\ parsed_response = NoResult
    /\ Idle

SpecFormat == FormatInit /\ [][ParseNext]_vars

(***************************************************************************)
(* Vocabulary of the claims about the parser, written from the claims and  *)
(* not from the parser                                                     *)
(***************************************************************************)
SectionHeaders == <<HDR_ANALISIS, HDR_JUSTIFICACION, HDR_ACCIONES>>

Placeholders == <<PH_ANALISIS, PH_JUSTIFICACION, PH_ACCIONES>>

\* tok spells section k's header, in either letter case
IsHeader(tok, k) ==
    \/ tok = SectionHeaders[k]
    \/ k = 1 /\ tok = HDR_ANALISIS_UPPER

IsAnyHeader(tok) == \E k \in 1..3 : IsHeader(tok, k)

Positions(text, k) == {i \in 1..Len(text) : IsHeader(text[i], k)}

Occurs(text, k) == Positions(text, k) # {}

\* the value returned for section k
Value(k) ==
    CASE k = 1 -> parsed_response.analisis_breve
      [] k = 2 -> parsed_response.justificacion
      [] k = 3 -> parsed_response.acciones_sugeridas

\* section k's own text: from its header to the next header or to the end
OwnText(text, k) ==
    LET i     == Min(Positions(text, k))
        stops == {j \in (i+1)..Len(text) : IsAnyHeader(text[j])}
        e     == IF stops = {} THEN Len(text) + 1 ELSE Min(stops)
    IN  SubSeq(text, i + 1, e - 1)

\* s with every surrounding whitespace and parenthesis character removed
FullTrim(s) == Strip(s, Whitespace \cup Parens)

Parsed == pc \in {"parse_returned", "parse_raised"}

\* the three headers occur once each, in the order 1, 2, 3
InOrderOnce(text) ==
    /\ \A k \in 1..3 : Cardinality(Positions(text, k)) = 1
    /\ Min(Positions(text, 1)) < Min(Positions(text, 2))
    /\ Min(Positions(text, 2)) < Min(Positions(text, 3))

\* exactly section m's header is missing; the other two occur once, in order
OnlyMissing(text, m) ==
    /\ Positions(text, m) = {}
    /\ \A k \in (1..3) \ {m} : Cardinality(Positions(text, k)) = 1
    /\ \A k, l \in (1..3) \ {m} :
          k < l => Min(Positions(text, k)) < Min(Positions(text, l))

(***************************************************************************)
(* C1. For a reply with the three headers in order, each field is exactly  *)
(* the text between its header and the next one (the last: to the end),    *)
(* trimmed of surrounding whitespace and parentheses, and holds no header. *)
(* Stated as the claim states it; the parser violates it (see C9).         *)
(***************************************************************************)
C1_SectionsExactAndTrimmed ==
    (Parsed /\ InOrderOnce(reply)) =>
        /\ pc = "parse_returned"
        /\ \A k \in 1..3 :
              /\ Value(k) = FullTrim(OwnText(reply, k))
              /\ \A i \in 1..Len(Value(k)) : ~IsAnyHeader(Value(k)[i])

\* C1 without the trimming: the boundaries of the three sections are right
\* (each field is its own section's text, cleaned as the parser cleans)
C1_SectionBoundaries ==
    (Parsed /\ InOrderOnce(reply)) =>
        /\ pc = "parse_returned"
        /\ \A k \in 1..3 :
              /\ Value(k) = Clean(OwnText(reply, k))
              /\ \A i \in 1..Len(Value(k)) : ~IsAnyHeader(Value(k)[i])

(***************************************************************************)
(* C2. For a reply missing exactly one header, the missing section is its  *)
(* placeholder and each present section is only its own text (up to the    *)
(* next present header or the end).  Stated as the claim states it; the    *)
(* parser violates it when header 2 is the missing one.                    *)
(***************************************************************************)
C2_OneMissingOthersExact ==
    \A m \in 1..3 :
        (Parsed /\ OnlyMissing(reply, m)) =>
            /\ pc = "parse_returned"
            /\ Value(m) = <<Placeholders[m]>>
            /\ \A k \in (1..3) \ {m} :
                  /\ Value(k) = Clean(OwnText(reply, k))
                  /\ \A i \in 1..Len(Value(k)) : ~IsAnyHeader(Value(k)[i])

(***************************************************************************)
(* C3. For the empty reply and every reply without any header the parser   *)
(* returns (does not raise) the three placeholders.                        *)
(***************************************************************************)
C3_NoHeadersAllPlaceholders ==
    (Parsed /\ \A k \in 1..3 : ~Occurs(reply, k)) =>
        /\ pc = "parse_returned"
        /\ parsed_response = [analisis_breve     |-> <<PH_ANALISIS>>,
                              justificacion      |-> <<PH_JUSTIFICACION>>,
                              acciones_sugeridas |-> <<PH_ACCIONES>>]

\* a non-empty reply without headers has been parsed
C3_Witness ==
    /\ pc = "parse_returned"
    /\ Len(reply) = MaxLen
    /\ \A k \in 1..3 : ~Occurs(reply, k)

(***************************************************************************)
(* C4. Whatever headers the reply holds, in whatever order and however     *)
(* often, the parser never raises and returns exactly the three fields,    *)
(* each a string.                                                          *)
(***************************************************************************)
C4_NeverRaisesThreeFields ==
    /\ pc # "parse_raised"
    /\ pc = "parse_returned" =>
          /\ DOMAIN parsed_response =
                {"analisis_breve", "justificacion", "acciones_sugeridas"}
          /\ \A k \in 1..3 : Value(k) \in Seq(Alphabet \cup
                {PH_JUSTIFICACION, PH_ACCIONES, ERR_PARSEO})

\* a reply with reordered and repeated headers, one of them missing, parsed
C4_Witness ==
    /\ pc = "parse_returned"
    /\ Len(reply) >= 3
    /\ reply[1] = HDR_ACCIONES /\ reply[2] = HDR_ANALISIS
    /\ reply[3] = HDR_ANALISIS
    /\ ~Occurs(reply, 2)

(***************************************************************************)
(* C9. For every section whose header is found the returned value neither  *)
(* begins nor ends with whitespace or a parenthesis, and cleaning it again *)
(* leaves it unchanged.  Stated as the claim states it; the parser         *)
(* violates it.                                                            *)
(***************************************************************************)
C9_CleanedIsFixedPoint ==
    \A k \in 1..3 :
        (Parsed /\ Occurs(reply, k)) =>
            LET v == Value(k)
            IN  /\ v # <<>> => /\ v[1] \notin Whitespace \cup Parens
                               /\ v[Len(v)] \notin Whitespace \cup Parens
                /\ Clean(v) = v

(***************************************************************************)
(* C10. A section's placeholder is returned if and only if its header does *)
(* not occur (case-insensitively); a header followed by no text, or only   *)
(* by whitespace and parentheses, before the next header or the end gives  *)
(* the empty string (read for replies that repeat no header).  Stated as   *)
(* the claim states it; the parser violates it.                            *)
(***************************************************************************)
C10_PlaceholderIffHeaderAbsent ==
    \A k \in 1..3 :
        Parsed =>
            /\ (Value(k) = <<Placeholders[k]>>) <=> ~Occurs(reply, k)
            /\ (/\ Occurs(reply, k)
                /\ \A j \in 1..3 : Cardinality(Positions(reply, j)) <= 1
                /\ \A i \in 1..Len(OwnText(reply, k)) :
                      OwnText(reply, k)[i] \in Whitespace \cup Parens)
               => Value(k) = <<>>

(***************************************************************************)
(* PatientData and its JSON body.  A value is a record [t, n, f, s, l, d]: *)
(* t is its type ("int", "float", "str", "list", "dict", "null") and the   *)
(* field of that type holds it, the others are empty.  An int is n; a      *)
(* float is n.f (39.1 is n = 39, f = 1); a string is the sequence of       *)
(* characters s; a list is the sequence of strings l; a dict is the        *)
(* sequence d of [key, value] entries in insertion order, a value being a  *)
(* string or an int, [t, n, s].                                            *)
(***************************************************************************)
JValue(type) ==
    [t |-> type, n |-> 0, f |-> 0, s |-> <<>>, l |-> <<>>, d |-> <<>>]

JInt(n) == [JValue("int") EXCEPT !.n = n]

JFloat(w, d) == [JValue("float") EXCEPT !.n = w, !.f = d]

JStr(str) == [JValue("str") EXCEPT !.s = str]

JList(l) == [JValue("list") EXCEPT !.l = l]

JDict(d) == [JValue("dict") EXCEPT !.d = d]

JNull == JValue("null")

\* a key the JSON object does not hold
Missing == JValue("missing")

\* the values of a dict
SInt(n) == [t |-> "int", n |-> n, s |-> <<>>]

SStr(str) == [t |-> "str", n |-> 0, s |-> str]

\* the fields of PatientData, in the order of the class
FieldNames ==
    <<"frecuencia_cardiaca", "presion_arterial", "frecuencia_respiratoria",
      "temperatura_corporal", "saturacion_oxigeno", "procalcitonina",
      "lactato", "pcr", "leucocitos", "array_json_comorbilidades",
      "texto_patologias_presentes", "texto_sintomas_diarios",
      "objeto_json_valores_previos", "porcentaje_ia">>

Fields == {FieldNames[i] : i \in 1..Len(FieldNames)}

\* the annotation of each field
Declared ==
    [f \in Fields |->
        CASE f \in {"frecuencia_cardiaca", "frecuencia_respiratoria",
                    "saturacion_oxigeno", "porcentaje_ia"} -> "int"
          [] f \in {"temperatura_corporal", "procalcitonina", "lactato",
                    "pcr", "leucocitos"} -> "float"
          [] f \in {"presion_arterial", "texto_patologias_presentes",
                    "texto_sintomas_diarios"} -> "str"
          [] f = "array_json_comorbilidades" -> "list"
          [] f = "objeto_json_valores_previos" -> "dict"]

\* the example= values of the fields (texts shortened to a few characters)
Example ==
    [f \in Fields |->
        CASE f = "frecuencia_cardiaca" -> JInt(125)
          [] f = "presion_arterial" -> JStr(<<"8", "5", "/", "4", "5">>)
          [] f = "frecuencia_respiratoria" -> JInt(28)
          [] f = "temperatura_corporal" -> JFloat(39, 1)
          [] f = "saturacion_oxigeno" -> JInt(89)
          [] f = "procalcitonina" -> JFloat(4, 5)
          [] f = "lactato" -> JFloat(3, 1)
          [] f = "pcr" -> JFloat(210, 0)
          [] f = "leucocitos" -> JFloat(18, 2)
          [] f = "array_json_comorbilidades" ->
                JList(<< <<"E", "P", "O", "C">>, <<"H", "T", "A">> >>)
          [] f = "texto_patologias_presentes" -> JStr(<<"N", "A", "C">>)
          [] f = "texto_sintomas_diarios" ->
                JStr(<<"d", "i", "s", "n", "e", "a">>)
          [] f = "objeto_json_valores_previos" ->
                JDict(<< [key |-> <<"l", "a", "c">>, value |-> SInt(1)],
                         [key |-> <<"p", "a">>,
                          value |-> SStr(<<"1", "1", "0", "/", "7", "0">>)] >>)
          [] f = "porcentaje_ia" -> JInt(85)]

(***************************************************************************)
(* str() of a number, as str.format renders an int and a float             *)
(***************************************************************************)
DigitChar == <<"0", "1", "2", "3", "4", "5", "6", "7", "8", "9">>

RECURSIVE Digits(_)
Digits(n) ==
    IF n < 10 THEN <<DigitChar[n + 1]>>
    ELSE Digits(n \div 10) \o <<DigitChar[(n % 10) + 1]>>

StrInt(n) == IF n < 0 THEN <<"-">> \o Digits(-n) ELSE Digits(n)

StrFloat(w, d) == StrInt(w) \o <<".">> \o Digits(d)

(***************************************************************************)
(* json.dumps(value, indent=2, ensure_ascii=False)                         *)
(***************************************************************************)
QUOTE == "\""

BACKSLASH == "\\"

NEWLINE == "\n"

RECURSIVE JsonEscape(_)
JsonEscape(str) ==
    IF str = <<>> THEN <<>>
    ELSE (CASE Head(str) = QUOTE -> <<BACKSLASH, QUOTE>>
            [] Head(str) = BACKSLASH -> <<BACKSLASH, BACKSLASH>>
            [] Head(str) = NEWLINE -> <<BACKSLASH, "n">>
            [] OTHER -> <<Head(str)>>)
         \o JsonEscape(Tail(str))

JsonString(str) == <<QUOTE>> \o JsonEscape(str) \o <<QUOTE>>

\* a value that is no container
JsonScalar(val) ==
    CASE val.t = "str" -> JsonString(val.s)
      [] val.t = "int" -> StrInt(val.n)
      [] val.t = "float" -> StrFloat(val.n, val.f)
      [] OTHER -> <<"n", "u", "l", "l">>

\* the items of a container, one per line, indented by two spaces
RECURSIVE JsonItems(_)
JsonItems(items) ==
    IF Len(items) = 1 THEN <<NEWLINE, " ", " ">> \o items[1]
    ELSE <<NEWLINE, " ", " ">> \o items[1] \o <<",">> \o JsonItems(Tail(items))

JsonList(l) ==
    IF l = <<>> THEN <<"[", "]">>
    ELSE <<"[">> \o JsonItems([i \in 1..Len(l) |-> JsonString(l[i])])
                 \o <<NEWLINE, "]">>

JsonDict(d) ==
    IF d = <<>> THEN <<"{", "}">>
    ELSE <<"{">> \o JsonItems([i \in 1..Len(d) |->
                        JsonString(d[i].key) \o <<":", " ">>
                            \o JsonScalar(d[i].value)])
                 \o <<NEWLINE, "}">>

json_dumps(val) ==
    CASE val.t = "list" -> JsonList(val.l)
      [] val.t = "dict" -> JsonDict(val.d)
      [] OTHER -> JsonScalar(val)

\* str(value), as str.format renders a keyword argument
Str(val) ==
    CASE val.t = "int" -> StrInt(val.n)
      [] val.t = "float" -> StrFloat(val.n, val.f)
      [] val.t = "str" -> val.s
      [] OTHER -> <<"<repr>">>          \* not a scalar: Python's repr

(***************************************************************************)
(* prompt_base: the literal text between the replacement fields is one     *)
(* token per stretch (named by the label that ends it); a replacement      *)
(* field is the three tokens "{", NAME, "}"                                *)
(***************************************************************************)
Upper ==
    [f \in Fields |->
        CASE f = "frecuencia_cardiaca" -> "FRECUENCIA_CARDIACA"
          [] f = "presion_arterial" -> "PRESION_ARTERIAL"
          [] f = "frecuencia_respiratoria" -> "FRECUENCIA_RESPIRATORIA"
          [] f = "temperatura_corporal" -> "TEMPERATURA_CORPORAL"
          [] f = "saturacion_oxigeno" -> "SATURACION_OXIGENO"
          [] f = "procalcitonina" -> "PROCALCITONINA"
          [] f = "lactato" -> "LACTATO"
          [] f = "pcr" -> "PCR"
          [] f = "leucocitos" -> "LEUCOCITOS"
          [] f = "array_json_comorbilidades" -> "ARRAY_JSON_COMORBILIDADES"
          [] f = "texto_patologias_presentes" -> "TEXTO_PATOLOGIAS_PRESENTES"
          [] f = "texto_sintomas_diarios" -> "TEXTO_SINTOMAS_DIARIOS"
          [] f = "objeto_json_valores_previos" -> "OBJETO_JSON_VALORES_PREVIOS"
          [] f = "porcentaje_ia" -> "PORCENTAJE_IA"]

\* the literal stretches of the template, in order: Literal[k] precedes the
\* k-th replacement field, Literal[15] ends the template
Literal ==
    <<"### ROL Y OBJETIVO ### ... * Frecuencia Cardiaca: ",
      " (lat/min) * Presion Arterial (Sistolica/Media): ",
      " (mmHg) * Frecuencia Respiratoria: ",
      " (resp/min) * Temperatura Corporal: ",
      " (C) * Saturacion de Oxigeno (SpO2): ",
      " (%) * Procalcitonina (PCT): ",
      " (ng/mL) * Lactato: ",
      " (mmol/L) * Proteina C Reactiva (PCR): ",
      " (mg/L) * Leucocitos: ",
      " (x10^9/L) ... * Comorbilidades Conocidas (Array JSON): ",
      " * Patologias Presentes (String): \"",
      "\" * Sintomas Diarios Reportados (String): \"",
      "\" ... * Valores Previos (Objeto JSON): ",
      " * Puntuacion de Riesgo de Sepsis (Modelo IA Interno): ",
      "% ... ### FORMATO DE RESPUESTA OBLIGATORIO ### ...">>

RECURSIVE TemplateFrom(_)
TemplateFrom(k) ==
    IF k > Len(FieldNames) THEN <<Literal[k]>>
    ELSE <<Literal[k], "{", Upper[FieldNames[k]], "}">> \o TemplateFrom(k + 1)

prompt_base == TemplateFrom(1)

(***************************************************************************)
(* str.format with keyword arguments: one pass over the template; the text *)
(* substituted for a field is not scanned again                            *)
(***************************************************************************)
RECURSIVE FormatFrom(_, _, _)
FormatFrom(tpl, i, kwargs) ==
    LET braces == {j \in i..Len(tpl) : tpl[j] \in {"{", "}"}}
    IN  IF braces = {} THEN Returned(SubSeq(tpl, i, Len(tpl)))
        ELSE LET j == Min(braces)
             IN  IF /\ tpl[j] = "{"
                    /\ j + 2 <= Len(tpl)
                    /\ tpl[j + 2] = "}"
                    /\ tpl[j + 1] \in DOMAIN kwargs
                 THEN LET rest == FormatFrom(tpl, j + 3, kwargs)
                      IN  [raised |-> rest.raised,
                           value  |-> SubSeq(tpl, i, j - 1)
                                         \o kwargs[tpl[j + 1]] \o rest.value]
                 \* KeyError, an unclosed "{", or a single "}"
                 ELSE Raised(<<>>)

\* a renderer that scans the substituted text again
FormatTwice(tpl, kwargs) ==
    LET once == FormatFrom(tpl, 1, kwargs)
    IN  IF once.raised THEN once ELSE FormatFrom(once.value, 1, kwargs)

Format(tpl, kwargs) == FormatFrom(tpl, 1, kwargs)

\* the first statements of the try block: the two json.dumps and the format.
\* Reading an attribute the object does not have raises.
Render(d) ==
    IF \E f \in Fields : d[f].t = "missing" THEN Raised(<<>>)
    ELSE LET comorbilidades_formateada ==
                 json_dumps(d["array_json_comorbilidades"])
             valores_previos_formateados ==
                 json_dumps(d["objeto_json_valores_previos"])
             names  == {Upper[f] : f \in Fields}
             field(n) == CHOOSE f \in Fields : Upper[f] = n
             kwargs ==
                 [n \in names |->
                     CASE n = "ARRAY_JSON_COMORBILIDADES" ->
                              comorbilidades_formateada
                       [] n = "OBJETO_JSON_VALORES_PREVIOS" ->
                              valores_previos_formateados
                       [] OTHER -> Str(d[field(n)])]
         IN  Format(prompt_base, kwargs)

(***************************************************************************)
(* The requests of the model: the example patient with one field varied    *)
(***************************************************************************)
MaxStrLen == 2

MaxListLen == 2

MaxDictLen == 2

MaxInt == 12

\* characters of a free text: a letter, the braces str.format reads and a
\* quote
Chars == {"a", "{", "}", QUOTE}

\* the strings of a list: empty, a letter, a brace, and the characters
\* json.dumps escapes
Items == {<<>>, <<"a">>, <<"{">>, <<QUOTE>>, <<BACKSLASH>>, <<NEWLINE>>}

IntValues == {JInt(n) : n \in (-2)..MaxInt}

FloatValues == {JFloat(w, d) : w \in {-1, 0, 4, 39}, d \in {0, 1, 5}}

StrValues == {JStr(str) : str \in TextsUpTo(MaxStrLen, Chars)}

ListValues == {JList(l) : l \in TextsUpTo(MaxListLen, Items)}

DictEntries ==
    {[key |-> k, value |-> val] :
        k \in {<<>>, <<"a">>, <<QUOTE>>},
        val \in {SStr(<<"{">>), SStr(<<BACKSLASH>>), SInt(7)}}

ListKeys(d) == {d[i].key : i \in 1..Len(d)}

\* a Python dict holds a key once
DictValues ==
    {JDict(d) : d \in {x \in TextsUpTo(MaxDictLen, DictEntries) :
                            Cardinality(ListKeys(x)) = Len(x)}}

ValuesOf(type) ==
    CASE type = "int" -> IntValues
      [] type = "float" -> FloatValues
      [] type = "str" -> StrValues
      [] type = "list" -> ListValues
      [] type = "dict" -> DictValues

\* well-formed bodies
Patients ==
    {[Example EXCEPT ![f] = val] : <<f, val>> \in
        UNION {{f} \X ValuesOf(Declared[f]) : f \in Fields}}

\* values no version of the validator converts to the declared type
WrongValues(type) ==
    {JNull} \cup (IF type = "str" THEN {JList(<<>>)} ELSE {JStr(<<"a">>)})

\* bodies with one field missing or of the wrong type
MalformedBodies ==
    {[Example EXCEPT ![f] = val] : <<f, val>> \in
        UNION {{f} \X ({Missing} \cup WrongValues(Declared[f])) : f \in Fields}}

(***************************************************************************)
(* SpecPrompt: the rendering of the prompt applied to every patient        *)
(***************************************************************************)
PromptInit ==
    /\ pc = "render_call"
    /\ body = NoBody
    /\ data \in Patients
    /\ prompt_final = NoText
    /\ llm_calls = 0
    /\ gemini = "none"
    /\ reply = NoText
    /\ parsed_response = NoResult
    /\ status = 0
    /\ detail = NoText
    /\ responses = 0

RenderCall ==
    /\ pc = "render_call"
    /\ LET r == Render(data)
       IN  /\ pc' = IF r.raised THEN "render_raised" ELSE "render_returned"
           /\ prompt_final' = r.value
    /\ UNCHANGED <<body, data, llm_calls, gemini, reply, parsed_response,
                   status, detail, responses>>

PromptNext == RenderCall

SpecPrompt == PromptInit /\ [][PromptNext]_vars

(***************************************************************************)
(* Vocabulary of the claim about the prompt: a reader of decimal numbers   *)
(* and of JSON text (json.loads), written from the JSON grammar and not    *)
(* from the encoder                                                        *)
(***************************************************************************)
IsDigit(c) == \E n \in 1..10 : DigitChar[n] = c

DigitValue(c) == (CHOOSE n \in 1..10 : DigitChar[n] = c) - 1

\* the end of the run of digits that starts at i
RECURSIVE DigitsEnd(_, _)
DigitsEnd(str, i) ==
    IF i <= Len(str) /\ IsDigit(str[i]) THEN DigitsEnd(str, i + 1) ELSE i

RECURSIVE DecimalValue(_)
DecimalValue(digits) ==
    IF digits = <<>> THEN 0
    ELSE 10 * DecimalValue(SubSeq(digits, 1, Len(digits) - 1))
            + DigitValue(digits[Len(digits)])

\* an optional "-" and digits at i: [ok, n, next]
ReadInt(str, i) ==
    LET neg   == i <= Len(str) /\ str[i] = "-"
        first == IF neg THEN i + 1 ELSE i
        e     == DigitsEnd(str, first)
        n     == DecimalValue(SubSeq(str, first, e - 1))
    IN  IF e = first THEN [ok |-> FALSE, n |-> 0, next |-> 0]
        ELSE [ok |-> TRUE, n |-> IF neg THEN -n ELSE n, next |-> e]

\* the characters of a JSON string up to its closing quote: [ok, s, next]
RECURSIVE ReadChars(_, _, _)
ReadChars(str, j, acc) ==
    IF j > Len(str) THEN [ok |-> FALSE, s |-> <<>>, next |-> 0]
    ELSE IF str[j] = QUOTE THEN [ok |-> TRUE, s |-> acc, next |-> j + 1]
    ELSE IF str[j] = BACKSLASH
    THEN IF j + 1 > Len(str) THEN [ok |-> FALSE, s |-> <<>>, next |-> 0]
         ELSE CASE str[j + 1] = QUOTE ->
                       ReadChars(str, j + 2, Append(acc, QUOTE))
                [] str[j + 1] = BACKSLASH ->
                       ReadChars(str, j + 2, Append(acc, BACKSLASH))
                [] str[j + 1] = "n" ->
                       ReadChars(str, j + 2, Append(acc, NEWLINE))
                [] OTHER -> [ok |-> FALSE, s |-> <<>>, next |-> 0]
    ELSE IF str[j] = NEWLINE THEN [ok |-> FALSE, s |-> <<>>, next |-> 0]
    ELSE ReadChars(str, j + 1, Append(acc, str[j]))

ReadString(str, i) ==
    IF i <= Len(str) /\ str[i] = QUOTE THEN ReadChars(str, i + 1, <<>>)
    ELSE [ok |-> FALSE, s |-> <<>>, next |-> 0]

RECURSIVE SkipSpace(_, _)
SkipSpace(str, i) ==
    IF i <= Len(str) /\ str[i] \in {" ", NEWLINE} THEN SkipSpace(str, i + 1)
    ELSE i

At(str, i, c) == i <= Len(str) /\ str[i] = c

\* the strings of a JSON array from i on, after "[" or ",": [ok, l, next]
RECURSIVE ReadStrings(_, _, _)
ReadStrings(str, i, acc) ==
    LET item == ReadString(str, SkipSpace(str, i))
        j    == SkipSpace(str, item.next)
    IN  IF ~item.ok THEN [ok |-> FALSE, l |-> <<>>, next |-> 0]
        ELSE IF At(str, j, ",") THEN ReadStrings(str, j + 1, Append(acc, item.s))
        ELSE IF At(str, j, "]")
        THEN [ok |-> TRUE, l |-> Append(acc, item.s), next |-> j + 1]
        ELSE [ok |-> FALSE, l |-> <<>>, next |-> 0]

\* json.loads of the text of an array of strings: [ok, l]
LoadsList(str) ==
    IF ~At(str, 1, "[") THEN [ok |-> FALSE, l |-> <<>>]
    ELSE IF At(str, SkipSpace(str, 2), "]")
    THEN [ok |-> SkipSpace(str, 2) = Len(str), l |-> <<>>]
    ELSE LET r == ReadStrings(str, 2, <<>>)
         IN  [ok |-> r.ok /\ r.next = Len(str) + 1, l |-> r.l]

\* the entries of a JSON object from i on, after "{" or ",": [ok, d, next]
RECURSIVE ReadEntries(_, _, _)
ReadEntries(str, i, acc) ==
    LET k     == ReadString(str, SkipSpace(str, i))
        colon == SkipSpace(str, k.next)
        v     == SkipSpace(str, colon + 1)
        vstr  == ReadString(str, v)
        vint  == ReadInt(str, v)
        value == IF vstr.ok THEN SStr(vstr.s) ELSE SInt(vint.n)
        j     == SkipSpace(str, IF vstr.ok THEN vstr.next ELSE vint.next)
        more  == Append(acc, [key |-> k.s, value |-> value])
    IN  IF ~k.ok \/ ~At(str, colon, ":") \/ ~(vstr.ok \/ vint.ok)
        THEN [ok |-> FALSE, d |-> <<>>, next |-> 0]
        ELSE IF At(str, j, ",") THEN ReadEntries(str, j + 1, more)
        ELSE IF At(str, j, "}") THEN [ok |-> TRUE, d |-> more, next |-> j + 1]
        ELSE [ok |-> FALSE, d |-> <<>>, next |-> 0]

\* json.loads of the text of an object of strings and ints: [ok, d]
LoadsDict(str) ==
    IF ~At(str, 1, "{") THEN [ok |-> FALSE, d |-> <<>>]
    ELSE IF At(str, SkipSpace(str, 2), "}")
    THEN [ok |-> SkipSpace(str, 2) = Len(str), d |-> <<>>]
    ELSE LET r == ReadEntries(str, 2, <<>>)
         IN  [ok |-> r.ok /\ r.next = Len(str) + 1, d |-> r.d]

\* where the k-th literal stretch of the template stands in the prompt
LiteralAt(prompt, k) == {i \in 1..Len(prompt) : prompt[i] = Literal[k]}

\* what the prompt holds at the k-th replacement field: the text between
\* the literal stretch before it and the one after it
Slot(prompt, k) ==
    SubSeq(prompt, Min(LiteralAt(prompt, k)) + 1,
                   Min(LiteralAt(prompt, k + 1)) - 1)

\* text is the literal value val, or JSON text that parses back to it
Holds(text, val) ==
    CASE val.t = "int" ->
            LET r == ReadInt(text, 1)
            IN  r.ok /\ r.next = Len(text) + 1 /\ r.n = val.n
      [] val.t = "float" ->
            LET w == ReadInt(text, 1)
                e == DigitsEnd(text, w.next + 1)
            IN  /\ w.ok /\ At(text, w.next, ".")
                /\ e = Len(text) + 1 /\ e > w.next + 1
                /\ w.n = val.n
                /\ DecimalValue(SubSeq(text, w.next + 1, e - 1)) = val.f
      [] val.t = "str" -> text = val.s
      [] val.t = "list" -> LoadsList(text).ok /\ LoadsList(text).l = val.l
      [] val.t = "dict" -> LoadsDict(text).ok /\ LoadsDict(text).d = val.d
      [] OTHER -> FALSE

Rendered == pc \in {"render_returned", "render_raised"}

(***************************************************************************)
(* C8. For every well-formed PatientData the prompt is produced without    *)
(* error; at each labeled position it holds the literal value of the       *)
(* scalar field, or JSON text that parses back to the list or the map; no  *)
(* replacement field of the template is left, also when a string holds     *)
(* braces.                                                                 *)
(***************************************************************************)
C8_PromptHoldsEveryField ==
    Rendered =>
        /\ pc = "render_returned"
        /\ \A k \in 1..Len(Literal) :
              Cardinality(LiteralAt(prompt_final, k)) = 1
        /\ \A k \in 1..Len(FieldNames) :
              /\ Min(LiteralAt(prompt_final, k))
                    < Min(LiteralAt(prompt_final, k + 1))
              /\ Holds(Slot(prompt_final, k), data[FieldNames[k]])
        /\ \A i \in 1..Len(prompt_final) :
              prompt_final[i] \notin {Upper[f] : f \in Fields}

\* a prompt rendered for a patient whose symptoms text holds braces
C8_Witness ==
    /\ pc = "render_returned"
    /\ data["texto_sintomas_diarios"].s = <<"{", "}">>
    /\ Slot(prompt_final, 12) = <<"{", "}">>

(***************************************************************************)
(* The endpoint POST /analyze                                              *)
(***************************************************************************)
\* a validator that lets every body through (data: dict)
ConformsAny(f, val) == TRUE

\* the body's value for field f is present and of the declared type.  The
\* bodies of the model hold no value the validator would convert (a number
\* written as a string, an int for a float).
Conforms(f, val) == val.t = Declared[f]

\* what model.generate_content, or reading response.text of a blocked
\* reply, raises: all of them subclasses of Exception
LLMFailures == {"network error", "API error", "invalid API key",
                "reply blocked by the safety filter"}

\* an except clause that catches the API's own errors only
CatchesApiErrorsOnly(e) == e \in {"API error", "invalid API key"}

\* except Exception as e
Catches(e) == e \in LLMFailures \cup {"format error", "parse error"}

ERR_PREFIX == "Error al procesar la solicitud: "

VALIDATION_ERROR == "validation error"

MaxReplyLen == 1

\* the request arrives
Receive(b) ==
    /\ pc = "idle"
    /\ pc' = "received"
    /\ body' = b
    /\ UNCHANGED <<data, prompt_final, llm_calls, gemini, reply,
                   parsed_response, status, detail, responses>>

\* the framework validates the body against PatientData before it calls
\* analyze_patient_endpoint: 422 and no call of the function on a failure
Validate ==
    /\ pc = "received"
    /\ IF \A f \in Fields : Conforms(f, body[f])
       THEN /\ data' = body
            /\ pc' = "handler"
            /\ UNCHANGED <<status, detail, responses>>
       ELSE /\ status' = 422
            /\ detail' = <<VALIDATION_ERROR>>
            /\ responses' = responses + 1
            /\ pc' = "done"
            /\ UNCHANGED data
    /\ UNCHANGED <<body, prompt_final, llm_calls, gemini, reply,
                   parsed_response>>

\* the handler's except branch: HTTPException(500, "Error ...: " + str(e))
Except(e) ==
    IF Catches(e)
    THEN /\ status' = 500
         /\ detail' = <<ERR_PREFIX, e>>
         /\ responses' = responses + 1
         /\ pc' = "done"
    ELSE /\ pc' = "unhandled"
         /\ UNCHANGED <<status, detail, responses>>

\* analyze_patient_endpoint up to the call of Gemini: render the prompt and
\* call model.generate_content
CallGemini ==
    /\ pc = "handler"
    /\ LET r == Render(data)
       IN  IF r.raised
           THEN /\ Except("format error")
                /\ UNCHANGED <<prompt_final, llm_calls>>
           ELSE /\ prompt_final' = r.value
                /\ llm_calls' = llm_calls + 1
                /\ pc' = "calling"
                /\ UNCHANGED <<status, detail, responses>>
    /\ UNCHANGED <<body, data, gemini, reply, parsed_response>>

\* a handler that calls Gemini again after a failure
GeminiFailsRetry(e) ==
    /\ pc = "calling"
    /\ gemini' = e
    /\ pc' = "handler"
    /\ UNCHANGED <<body, data, prompt_final, llm_calls, reply,
                   parsed_response, status, detail, responses>>

\* the call, or the reading of response.text, raises e
GeminiFails(e) ==
    /\ pc = "calling"
    /\ gemini' = e
    /\ Except(e)
    /\ UNCHANGED <<body, data, prompt_final, llm_calls, reply,
                   parsed_response>>

\* the call returns text: parse it and return the dict (200)
GeminiReturns(text) ==
    /\ pc = "calling"
    /\ gemini' = "text"
    /\ reply' = text
    /\ LET r == parse_gemini_response(text)
       IN  IF r.raised
           THEN /\ Except("parse error")
                /\ UNCHANGED parsed_response
           ELSE /\ parsed_response' = r.value
                /\ status' = 200
                /\ responses' = responses + 1
                /\ pc' = "done"
                /\ UNCHANGED detail
    /\ UNCHANGED <<body, data, prompt_final, llm_calls>>

\* the request is over; the service waits for the next one
NextRequest ==
    /\ pc = "done"
    /\ pc' = "idle"
    /\ body' = NoBody
    /\ data' = NoData
    /\ prompt_final' = NoText
    /\ llm_calls' = 0
    /\ gemini' = "none"
    /\ reply' = NoText
    /\ parsed_response' = NoResult
    /\ status' = 0
    /\ detail' = NoText
    /\ responses' = 0

Init ==
    /\ pc = "idle"
    /\ reply = NoText
    /\ parsed_response = NoResult
    /\ Idle

Next ==
    \/ \E b \in Patients \cup MalformedBodies : Receive(b)
    \/ Validate
    \/ CallGemini
    \/ \E e \in LLMFailures : GeminiFails(e)
    \/ \E text \in TextsUpTo(MaxReplyLen, Alphabet) : GeminiReturns(text)
    \/ NextRequest

Spec == Init /\ [][Next]_vars

(***************************************************************************)
(* Vocabulary of the claims about the endpoint                             *)
(***************************************************************************)
WellFormed(b) == \A f \in Fields : b[f].t = Declared[f]

\* a request is in flight or answered
InRequest == pc \in {"received", "handler", "calling", "done", "unhandled"}

C6_FailureIsCaughtAs500 ==
    /\ pc # "unhandled"
    /\ (InRequest /\ gemini \in LLMFailures) =>
          /\ pc = "done"
          /\ status = 500
          /\ detail = <<ERR_PREFIX, gemini>>

\* a reply blocked by the safety filter was answered 500
C6_Witness ==
    /\ pc = "done"
    /\ gemini = "reply blocked by the safety filter"
    /\ status = 500

(***************************************************************************)
(* C7. Gemini is called at most once per request (no retry after a         *)
(* failure) and the request ends with exactly one response: 200 after a    *)
(* call that returned, 500 after one that failed, 422 without any call.    *)
(***************************************************************************)
C7_OneCallOneResponse ==
    /\ llm_calls <= 1
    /\ responses <= 1
    /\ responses = 1 <=> pc = "done"
    /\ pc = "done" =>
          /\ status \in {200, 422, 500}
          /\ status = 200 <=> (llm_calls = 1 /\ gemini = "text")
          /\ status = 500 <=> (llm_calls = 1 /\ gemini \in LLMFailures)
          /\ status = 422 <=> (llm_calls = 0 /\ gemini = "none")
    /\ pc # "done" => status = 0

\* a failed call was answered, and was not made twice
C7_Witness ==
    /\ pc = "done"
    /\ status = 500
    /\ llm_calls = 1
    /\ responses = 1
    /\ gemini = "network error"

====
